---------------------------- MODULE Spec2Model ----------------------------
(***************************************************************************)
(* A model of oci_documentation_mcp_server/oci_ddgs.py: the two tools      *)
(* search_documentation and read_documentation, and the three helpers      *)
(* read_documentation calls (is_html_content, extract_content_from_html,   *)
(* format_documentation_result: oci_ddgs.py imports them from              *)
(* oci_documentation_mcp_server.util and keeps their bodies, commented     *)
(* out, in its lines 40-69, which is what the model translates).           *)
(*                                                                         *)
(* Strings are sequences of one-character strings, so that prefix, suffix, *)
(* substring, slice and strip are computed as Python computes them.  A     *)
(* string that the code builds with an f-string is the record or sequence  *)
(* of its parts (the literal pieces and the interpolated values).          *)
(***************************************************************************)
EXTENDS Integers, Sequences, FiniteSets

VARIABLES
    pc,         \* read_documentation: each call's position
    args,       \* read_documentation: each call's (url, max_length, start_index)
    response,   \* read_documentation: what client.get gave the call, once it has
    result,     \* read_documentation: the string the call returned
    steps,      \* read_documentation: what the call has run so far, in order
    search,     \* search_documentation: the last call (arguments, provider outcome, result)
    win,        \* format_documentation_result: the last application (inputs, report)
    pager,      \* a caller paging through one document with the continuation values
    cls         \* is_html_content and the branch on it: the last application

vars == <<pc, args, response, result, steps, search, win, pager, cls>>

\* Python's None, and a value that is set: a sequence of no or one element.
None == <<>>

Some(x) == <<x>>

Range(s) == {s[i] : i \in DOMAIN s}

Min(a, b) == IF a < b THEN a ELSE b

Max(a, b) == IF a > b THEN a ELSE b

(***************************************************************************)
(* Python's string operations, on sequences of characters.                 *)
(***************************************************************************)

\* s.startswith(p)
StartsWith(s, p) == Len(s) >= Len(p) /\ SubSeq(s, 1, Len(p)) = p

\* s.endswith(p)
EndsWith(s, p) == Len(s) >= Len(p) /\ SubSeq(s, Len(s) - Len(p) + 1, Len(s)) = p

\* s[i:j] for 0 <= i, 0 <= j: both ends are clamped to len(s), and an empty
\* range gives the empty string.
PySlice(s, i, j) ==
    LET lo == Min(i, Len(s))
        hi == Min(j, Len(s))
    IN  IF lo >= hi THEN <<>> ELSE SubSeq(s, lo + 1, hi)

\* p in s
Contains(s, p) ==
    \E i \in 1..(Len(s) - Len(p) + 1) : SubSeq(s, i, i + Len(p) - 1) = p

Whitespace == {" ", "\n", "\t", "\r"}

\* s.strip()
Strip(s) ==
    LET keep == {i \in 1..Len(s) : s[i] \notin Whitespace}
    IN  IF keep = {} THEN <<>>
        ELSE LET first == CHOOSE i \in keep : \A j \in keep : i <= j
                 last  == CHOOSE i \in keep : \A j \in keep : j <= i
             IN  SubSeq(s, first, last)

\* The position of the first occurrence of p in s at or after position i
\* (1-based), 0 when there is none: s.find(p, i-1) + 1.
Find(s, p, i) ==
    LET hits == {k \in i..(Len(s) - Len(p) + 1) : SubSeq(s, k, k + Len(p) - 1) = p}
    IN  IF hits = {} THEN 0 ELSE CHOOSE k \in hits : \A j \in hits : k <= j

(***************************************************************************)
(* format_documentation_result (lines 56-69).  The report is one string;   *)
(* the record holds the values interpolated into it, in order: url         *)
(* ("# OCI Documentation from {url}"), total_length ("**Total Length:**"), *)
(* showing_from and showing_to ("**Showing:** Characters {} to {}"), body  *)
(* (the slice) and note: the value after "start_index=" in the truncation  *)
(* note, <<>> when the note is not appended.                               *)
(***************************************************************************)

\* A plausible slip: >= for > in the truncation test of line 66.
format_documentation_result_ge(url, content, start_index, max_length) ==
    LET truncated_content == PySlice(content, start_index, start_index + max_length)
    IN  [url           |-> url,
         total_length  |-> Len(content),
         showing_from  |-> start_index,
         showing_to    |-> start_index + Len(truncated_content),
         body          |-> truncated_content,
         note          |-> IF Len(content) >= start_index + max_length
                           THEN <<start_index + max_length>>
                           ELSE <<>>]

\* A plausible slip: the slice of line 58 taken one character too long.
format_documentation_result_long(url, content, start_index, max_length) ==
    LET truncated_content == PySlice(content, start_index, start_index + max_length + 1)
    IN  [url           |-> url,
         total_length  |-> Len(content),
         showing_from  |-> start_index,
         showing_to    |-> start_index + Len(truncated_content),
         body          |-> truncated_content,
         note          |-> IF Len(content) > start_index + max_length
                           THEN <<start_index + max_length>>
                           ELSE <<>>]

\* A plausible slip: the note of line 67 names the end of the range shown,
\* counted inclusively (one short of where the next window starts).
format_documentation_result_overlap(url, content, start_index, max_length) ==
    LET truncated_content == PySlice(content, start_index, start_index + max_length)
    IN  [url           |-> url,
         total_length  |-> Len(content),
         showing_from  |-> start_index,
         showing_to    |-> start_index + Len(truncated_content),
         body          |-> truncated_content,
         note          |-> IF Len(content) > start_index + max_length
                           THEN <<start_index + max_length - 1>>
                           ELSE <<>>]

format_documentation_result(url, content, start_index, max_length) ==
    LET truncated_content == PySlice(content, start_index, start_index + max_length)
    IN  [url           |-> url,
         total_length  |-> Len(content),
         showing_from  |-> start_index,
         showing_to    |-> start_index + Len(truncated_content),
         body          |-> truncated_content,
         note          |-> IF Len(content) > start_index + max_length
                           THEN <<start_index + max_length>>
                           ELSE <<>>]

(***************************************************************************)
(* is_html_content (lines 40-42).                                          *)
(***************************************************************************)

TextHtml == <<"t", "e", "x", "t", "/", "h", "t", "m", "l">>

DoctypeUpper == <<"<", "!", "D", "O", "C", "T", "Y", "P", "E">>

HtmlTag == <<"<", "h", "t", "m", "l">>

\* The length of the prefix of the body searched for '<html' (content[:1000]).
SniffWindow == 1000

is_html_content(content, content_type) ==
    \/ Contains(content_type, TextHtml)
    \/ StartsWith(Strip(content), DoctypeUpper)
    \/ Contains(PySlice(content, 0, SniffWindow), HtmlTag)

(***************************************************************************)
(* extract_content_from_html (lines 44-54): BeautifulSoup's html.parser,   *)
(* the script and style elements decomposed, markdownify with ATX          *)
(* headings, and strip().  The two libraries are modelled by what they do  *)
(* to the markup the model's pages use: text outside tags is kept as it    *)
(* is; a script or style element goes with everything in it; an opening    *)
(* <hN> becomes N '#' and a space, a closing </hN> a blank line; every     *)
(* other tag or declaration is dropped; a '<' that no '>' closes is text.  *)
(***************************************************************************)

NameChars ==
    {"a", "b", "c", "d", "e", "f", "g", "h", "i", "j", "k", "l", "m", "n", "o",
     "p", "q", "r", "s", "t", "u", "v", "w", "x", "y", "z",
     "1", "2", "3", "4", "5", "6"}

\* The tag name that starts the text between '<' and '>'.
TagName(inner) ==
    LET stops == {k \in 1..Len(inner) : inner[k] \notin NameChars}
    IN  IF stops = {} THEN inner
        ELSE SubSeq(inner, 1, (CHOOSE k \in stops : \A j \in stops : k <= j) - 1)

ScriptName == <<"s", "c", "r", "i", "p", "t">>

StyleName == <<"s", "t", "y", "l", "e">>

HeadingLevels == {"1", "2", "3", "4", "5", "6"}

IsHeading(name) == Len(name) = 2 /\ name[1] = "h" /\ name[2] \in HeadingLevels

HeadingLevel(name) == CHOOSE n \in 1..6 : <<"1", "2", "3", "4", "5", "6">>[n] = name[2]

RECURSIVE Markdown(_, _)
\* The text of html from position i (1-based) on, which is outside any tag.
Markdown(html, i) ==
    LET lt == Find(html, <<"<">>, i)
        gt == IF lt = 0 THEN 0 ELSE Find(html, <<">">>, lt)
    IN  IF lt = 0 \/ gt = 0 THEN PySlice(html, i - 1, Len(html))
        ELSE LET text  == SubSeq(html, i, lt - 1)
                 inner == SubSeq(html, lt + 1, gt - 1)
                 name  == TagName(inner)
             IN  IF name \in {ScriptName, StyleName}
                 THEN LET closing == <<"<", "/">> \o name \o <<">">>
                          at == Find(html, closing, gt + 1)
                      IN  IF at = 0 THEN text
                          ELSE text \o Markdown(html, at + Len(closing))
                 ELSE IF IsHeading(name)
                 THEN text \o [k \in 1..HeadingLevel(name) |-> "#"] \o <<" ">>
                           \o Markdown(html, gt + 1)
                 ELSE IF Len(inner) > 0 /\ inner[1] = "/" /\ IsHeading(TagName(Tail(inner)))
                 THEN text \o <<"\n", "\n">> \o Markdown(html, gt + 1)
                 ELSE text \o Markdown(html, gt + 1)

extract_content_from_html(html_content) == Strip(Markdown(html_content, 1))

(***************************************************************************)
(* Lines 157-162 of read_documentation: the branch on is_html_content and  *)
(* the windowing of the content it chooses.                                *)
(***************************************************************************)

ContentOf(page_raw, content_type) ==
    IF is_html_content(page_raw, content_type)
    THEN extract_content_from_html(page_raw)
    ELSE page_raw

(***************************************************************************)
(* Pages and declared content types the HTTP collaborator may deliver.     *)
(***************************************************************************)

\* plain text
BodyText ==
    <<"h", "e", "l", "l", "o">>

\* a JSON document
BodyJson ==
    <<"{", "\"", "a", "\"", ":", " ", "1", "}">>

\* a leading <!DOCTYPE, no <html tag
BodyDoctype ==
    <<"<", "!", "D", "O", "C", "T", "Y", "P", "E", " ", "h", "t", "m", "l",
      ">", "<", "p", ">", "h", "i", "<", "/", "p", ">">>

\* <!DOCTYPE after leading whitespace
BodyDoctypeIndented ==
    <<" ", " ", "\n", "<", "!", "D", "O", "C", "T", "Y", "P", "E", " ",
      "h", "t", "m", "l", ">", "<", "h", "1", ">", "T", "<", "/", "h", "1",
      ">", "x">>

\* the declaration in lower case, no <html tag
BodyDoctypeLower ==
    <<"<", "!", "d", "o", "c", "t", "y", "p", "e", " ", "h", "t", "m", "l",
      ">", "<", "p", ">", "h", "i", "<", "/", "p", ">">>

\* <!DOCTYPE not at the start
BodyDoctypeLate ==
    <<"x", " ", "<", "!", "D", "O", "C", "T", "Y", "P", "E", " ", "h", "t",
      "m", "l", ">">>

\* an <html tag and no declaration
BodyHtmlTag ==
    <<"<", "h", "t", "m", "l", ">", "<", "b", "o", "d", "y", ">", "x", "<",
      "/", "b", "o", "d", "y", ">", "<", "/", "h", "t", "m", "l", ">">>

\* the root tag in upper case
BodyHtmlUpper ==
    <<"<", "H", "T", "M", "L", ">", "x", "<", "/", "H", "T", "M", "L", ">">>

\* script and style elements and a heading, no marker
BodyScript ==
    <<"<", "s", "c", "r", "i", "p", "t", ">", "f", "(", ")", "<", "/", "s",
      "c", "r", "i", "p", "t", ">", "<", "h", "2", ">", "T", "<", "/", "h",
      "2", ">", "b", "<", "s", "t", "y", "l", "e", ">", "p", "{", "}", "<",
      "/", "s", "t", "y", "l", "e", ">">>

\* whitespace alone
BodyBlank ==
    <<" ", " ", "\n">>

BodyEmpty == <<>>

\* '<html' ending exactly at character 1000, and one character later.
BodyHtmlTagAtEdge == [i \in 1..(SniffWindow - 5) |-> "x"] \o <<"<", "h", "t", "m", "l", ">">>

BodyHtmlTagPastEdge == [i \in 1..(SniffWindow - 4) |-> "x"] \o <<"<", "h", "t", "m", "l", ">">>

Bodies ==
    {BodyText, BodyJson, BodyDoctype, BodyDoctypeIndented, BodyDoctypeLower,
     BodyDoctypeLate, BodyHtmlTag, BodyHtmlUpper, BodyScript, BodyBlank, BodyEmpty,
     BodyHtmlTagAtEdge, BodyHtmlTagPastEdge}

TypeHtmlUtf8 ==
    <<"t", "e", "x", "t", "/", "h", "t", "m", "l", ";", " ", "c", "h", "a",
      "r", "s", "e", "t", "=", "u", "t", "f", "-", "8">>

TypePlain ==
    <<"t", "e", "x", "t", "/", "p", "l", "a", "i", "n">>

TypeJson ==
    <<"a", "p", "p", "l", "i", "c", "a", "t", "i", "o", "n", "/", "j", "s",
      "o", "n">>

\* No content-type header: headers.get('content-type', '') (line 155).
TypeMissing == <<>>

ContentTypes == {TypeHtmlUtf8, TextHtml, TypePlain, TypeJson, TypeMissing}

(***************************************************************************)
(* Bounds of the windowing inputs.                                         *)
(***************************************************************************)

MaxContentLen == 3

MaxStartIndex == 5

MaxMaxLength == 3

RECURSIVE SeqsOfLen(_, _)
SeqsOfLen(S, n) ==
    IF n = 0 THEN {<<>>}
    ELSE {Append(s, x) : s \in SeqsOfLen(S, n - 1), x \in S}

SeqsUpTo(S, n) == UNION {SeqsOfLen(S, k) : k \in 0..n}

WindowContents == SeqsUpTo({"a", "b"}, MaxContentLen)

DocUrlA ==
    <<"h", "t", "t", "p", "s", ":", "/", "/", "d", "o", "c", "s", ".", "o", "r",
      "a", "c", "l", "e", ".", "c", "o", "m", "/", "a", ".", "h", "t", "m">>

(***************************************************************************)
(* read_documentation (lines 107-170).                                     *)
(***************************************************************************)

\* a second page, over http and ending .html
DocUrlB ==
    <<"h", "t", "t", "p", ":", "/", "/", "d", "o", "c", "s", ".", "o", "r",
      "a", "c", "l", "e", ".", "c", "o", "m", "/", "b", ".", "h", "t", "m",
      "l">>

\* the wrong host
UrlWrongHost ==
    <<"h", "t", "t", "p", "s", ":", "/", "/", "e", "x", "a", "m", "p", "l",
      "e", ".", "c", "o", "m", "/", "p", "a", "g", "e", ".", "h", "t", "m">>

\* the wrong suffix
UrlWrongSuffix ==
    <<"h", "t", "t", "p", "s", ":", "/", "/", "d", "o", "c", "s", ".", "o",
      "r", "a", "c", "l", "e", ".", "c", "o", "m", "/", "p", "a", "g", "e",
      ".", "t", "x", "t">>

\* a host that differs from docs.oracle.com where the pattern has an escaped dot
UrlLookalike ==
    <<"h", "t", "t", "p", "s", ":", "/", "/", "d", "o", "c", "s", "x", "o",
      "r", "a", "c", "l", "e", ".", "c", "o", "m", "/", "a", ".", "h", "t",
      "m">>

\* passes both checks and holds a tab, which httpx refuses as a URL
UrlControlChar ==
    <<"h", "t", "t", "p", "s", ":", "/", "/", "d", "o", "c", "s", ".", "o",
      "r", "a", "c", "l", "e", ".", "c", "o", "m", "/", "a", "\t", "b",
      ".", "h", "t", "m">>

HttpPrefix ==
    <<"h", "t", "t", "p", ":", "/", "/", "d", "o", "c", "s", ".", "o", "r",
      "a", "c", "l", "e", ".", "c", "o", "m", "/">>

HttpsPrefix ==
    <<"h", "t", "t", "p", "s", ":", "/", "/", "d", "o", "c", "s", ".", "o",
      "r", "a", "c", "l", "e", ".", "c", "o", "m", "/">>

SuffixHtm == <<".", "h", "t", "m">>

SuffixHtml == <<".", "h", "t", "m", "l">>


\* re.match(r'^https?://docs\.oracle\.com/', url_str) with the dots left
\* unescaped, so that each matches any character.
HostOk_unescaped(url_str) ==
    \E prefix \in {HttpPrefix, HttpsPrefix} :
        /\ Len(url_str) >= Len(prefix)
        /\ \A i \in 1..Len(prefix) : prefix[i] = "." \/ url_str[i] = prefix[i]

\* re.match(r'^https?://docs\.oracle\.com/', url_str) (line 125)
HostOk(url_str) == StartsWith(url_str, HttpPrefix) \/ StartsWith(url_str, HttpsPrefix)

\* url_str.endswith('.htm') or url_str.endswith('.html') (line 129)
SuffixOk(url_str) == EndsWith(url_str, SuffixHtm) \/ EndsWith(url_str, SuffixHtml)

\* The strings read_documentation returns without a report (lines 127, 131,
\* 144, 149): the literal pieces and the values interpolated between them.
ErrorDomain == [head |-> "Error:", text |-> " URL must be from the docs.oracle.com domain"]

ErrorSuffix == [head |-> "Error:", text |-> " URL must end with .htm or .html"]

FailedException(url_str, message) ==
    [head |-> "Failed to fetch ", url |-> url_str, sep |-> ": ", message |-> message]

FailedStatus(url_str, status_code) ==
    [head |-> "Failed to fetch ", url |-> url_str, sep |-> " - status code ",
     status_code |-> status_code]

\* The first status code that is an error (line 148).
ErrorStatus == 400

(***************************************************************************)
(* The HTTP collaborator (client.get, lines 137-142).  The remote content  *)
(* does not change: each page has one payload.                             *)
(***************************************************************************)

Remote(url_str) ==
    IF url_str = DocUrlA
    THEN [text |-> BodyScript, content_type |-> TypeHtmlUtf8]
    ELSE [text |-> BodyDoctypeLower, content_type |-> TypePlain]

\* The subclasses of httpx.HTTPError the model raises, and one exception of
\* httpx that is not an HTTPError.
HTTPErrorClasses == {"ConnectError", "ReadTimeout"}

ControlChars == {"\t", "\n", "\r"}

\* What client.get does: it gives a response (of the page, or an error
\* status), or raises.  httpx raises InvalidURL, before it sends anything,
\* for a URL that holds an ASCII control character.
HttpOutcomes(url_str) ==
    IF \E i \in 1..Len(url_str) : url_str[i] \in ControlChars
    THEN {[kind |-> "raise", class |-> "InvalidURL",
           message |-> "Invalid non-printable ASCII character in URL"]}
    ELSE {[kind |-> "response", status_code |-> st,
           text |-> Remote(url_str).text, content_type |-> Remote(url_str).content_type]
              : st \in {200, 400, 503}}
         \cup {[kind |-> "raise", class |-> "ConnectError",
                message |-> "All connection attempts failed"],
               [kind |-> "raise", class |-> "ReadTimeout", message |-> ""]}

MaxReadLength == 1

MaxReadStart == 1

Urls == {DocUrlA, DocUrlB, UrlWrongHost, UrlWrongSuffix, UrlLookalike, UrlControlChar}

Calls == {"c1", "c2"}

\* A module-level url_str, which a concurrent call overwrites: the url of
\* another call that is under way, when there is one.
url_str_shared(c) ==
    LET others == {d \in Calls \ {c} : args[d] # None}
    IN  IF others = {} THEN args[c][1].url
        ELSE args[CHOOSE d \in others : TRUE][1].url

\* url_str = str(url) (line 124), a local of the call
url_str(c) == args[c][1].url

\* Lines 144-146: the failure is logged and returned.
AfterFailure(c, message) ==
    [pc |-> "returned", result |-> Some(FailedException(url_str(c), message)),
     steps |-> steps[c]]

\* Lines 143-170, once client.get has given outcome o to call c: what the
\* call becomes (its position, what it returned, what it ran).
AfterGet(c, o) ==
    IF o.kind = "raise"
    THEN IF o.class \in HTTPErrorClasses
         THEN AfterFailure(c, o.message)
         ELSE [pc |-> "raised", result |-> None, steps |-> steps[c]]
    ELSE IF o.status_code >= ErrorStatus
    THEN [pc |-> "returned", result |-> Some(FailedStatus(url_str(c), o.status_code)),
          steps |-> steps[c]]
    ELSE LET a == args[c][1]
             html == is_html_content(o.text, o.content_type)
         IN  [pc |-> "returned",
              result |-> Some(format_documentation_result(
                                  url_str(c), ContentOf(o.text, o.content_type),
                                  a.start_index, a.max_length)),
              steps |-> steps[c] \o <<"classify">>
                            \o (IF html THEN <<"normalize">> ELSE <<>>)
                            \o <<"window">>]

(***************************************************************************)
(* search_documentation (lines 72-104).  A text (a title, a url, a         *)
(* description, a message) is the sequence of its parts, '' the empty one. *)
(***************************************************************************)

\* Field(ge=1, le=10) of limit (lines 78-79)
LimitMin == 1

LimitMax == 10

\* Raw records of the provider: dicts that hold some of title, href, body.
RawFull ==
    [title |-> <<"Compute">>, href |-> <<"https://docs.oracle.com/c.htm">>,
     body |-> <<"About compute">>]

RawOther ==
    [title |-> <<"Storage">>, href |-> <<"https://docs.oracle.com/s.htm">>,
     body |-> <<"About storage">>]

RawNoTitle == [href |-> <<"https://docs.oracle.com/n.htm">>, body |-> <<"No title">>]

RawEmpty == [k \in {} |-> <<>>]

RawRecords == {RawFull, RawOther, RawNoTitle, RawEmpty}

MaxRecords == 2

\* What DDGS().text does (lines 86-87): it returns a list of raw records,
\* which the model does not hold to max_results, or raises.
ProviderOutcomes ==
    {[kind |-> "response", records |-> rs] : rs \in SeqsUpTo(RawRecords, MaxRecords)}
    \cup {[kind |-> "raise", class |-> "RatelimitException", message |-> "202 Ratelimit"],
          [kind |-> "raise", class |-> "TimeoutException", message |-> ""]}

\* The classes of the provider's exceptions, all subclasses of Exception.
ExceptionSubclasses == {"DDGSException", "RatelimitException", "TimeoutException"}

\* A plausible slip: except DDGSException, the provider's base class alone
\* were the others not derived from it.
CaughtBySearch_narrow(class) == class = "DDGSException"

\* except Exception (line 88)
CaughtBySearch(class) == class \in ExceptionSubclasses

\* result.get(key, '') (lines 97-99)
Get(record, key) == IF key \in DOMAIN record THEN record[key] ELSE <<>>

\* Lines 83-104 with the provider's outcome o: whether the call returned or
\* raised, the list it returned, the query it sent and how many it sent.
search_documentation(search_phrase, limit, o) ==
    LET sent == [query       |-> <<search_phrase, " site:docs.oracle.com">>,
                 max_results |-> limit,
                 queries     |-> 1]
    IN  IF o.kind = "raise"
        THEN IF CaughtBySearch(o.class)
             THEN [status |-> "returned", sent |-> sent,
                   result |-> <<[title       |-> <<>>,
                                 url         |-> <<>>,
                                 description |-> <<"Error searching OCI docs: ", o.message>>]>>]
             ELSE [status |-> "raised", sent |-> sent, result |-> <<>>]
        ELSE [status |-> "returned", sent |-> sent,
              result |-> [i \in 1..Len(o.records) |->
                             [title       |-> Get(o.records[i], "title"),
                              url         |-> Get(o.records[i], "href"),
                              description |-> Get(o.records[i], "body")]]]

(***************************************************************************)
(* The state after the module is imported: no call has been made.          *)
(***************************************************************************)

Init ==
    /\ pc = [c \in Calls |-> "idle"]
    /\ args = [c \in Calls |-> None]
    /\ response = [c \in Calls |-> None]
    /\ result = [c \in Calls |-> None]
    /\ steps = [c \in Calls |-> <<>>]
    /\ search = None
    /\ win = None
    /\ pager = None
    /\ cls = None

(***************************************************************************)
(* read_documentation.  A call runs without interruption up to             *)
(* `await client.get` (line 137), its one suspension point, and from the   *)
(* outcome of the request to its end.                                      *)
(***************************************************************************)

\* Lines 124-142: the two checks, then the request.
ReadCall(c) ==
    /\ pc[c] = "idle"
    /\ \E url \in Urls, max_length \in 1..MaxReadLength, start_index \in 0..MaxReadStart :
        /\ args' = [args EXCEPT ![c] = Some([url         |-> url,
                                             max_length  |-> max_length,
                                             start_index |-> start_index])]
        /\ IF ~HostOk(url)
           THEN /\ pc' = [pc EXCEPT ![c] = "returned"]
                /\ result' = [result EXCEPT ![c] = Some(ErrorDomain)]
                /\ UNCHANGED steps
           ELSE IF ~SuffixOk(url)
           THEN /\ pc' = [pc EXCEPT ![c] = "returned"]
                /\ result' = [result EXCEPT ![c] = Some(ErrorSuffix)]
                /\ UNCHANGED steps
           ELSE /\ pc' = [pc EXCEPT ![c] = "awaiting"]
                /\ steps' = [steps EXCEPT ![c] = Append(@, "get")]
                /\ UNCHANGED result
    /\ UNCHANGED <<response, search, win, pager, cls>>

\* Lines 143-170: the request ends, and the call with it.
ReadResume(c) ==
    /\ pc[c] = "awaiting"
    /\ \E o \in HttpOutcomes(args[c][1].url) :
        /\ response' = [response EXCEPT ![c] = Some(o)]
        /\ pc' = [pc EXCEPT ![c] = AfterGet(c, o).pc]
        /\ result' = [result EXCEPT ![c] = AfterGet(c, o).result]
        /\ steps' = [steps EXCEPT ![c] = AfterGet(c, o).steps]
    /\ UNCHANGED <<args, search, win, pager, cls>>

\* The caller has the call's result (or its exception); the next call
\* starts from nothing.
ReadDone(c) ==
    /\ pc[c] \in {"returned", "raised"}
    /\ pc' = [pc EXCEPT ![c] = "idle"]
    /\ args' = [args EXCEPT ![c] = None]
    /\ response' = [response EXCEPT ![c] = None]
    /\ result' = [result EXCEPT ![c] = None]
    /\ steps' = [steps EXCEPT ![c] = <<>>]
    /\ UNCHANGED <<search, win, pager, cls>>

NextRead == \E c \in Calls : ReadCall(c) \/ ReadResume(c) \/ ReadDone(c)

Spec == Init /\ [][NextRead]_vars

(***************************************************************************)
(* search_documentation: one call, which has no suspension point.          *)
(***************************************************************************)

SearchCall ==
    /\ search = None
    /\ \E limit \in LimitMin..LimitMax, o \in ProviderOutcomes :
        search' = Some([limit   |-> limit,
                        outcome |-> o,
                        call    |-> search_documentation("x", limit, o)])
    /\ UNCHANGED <<pc, args, response, result, steps, win, pager, cls>>

\* The caller has the list (or the exception).
SearchDone ==
    /\ search # None
    /\ search' = None
    /\ UNCHANGED <<pc, args, response, result, steps, win, pager, cls>>

NextSearch == SearchCall \/ SearchDone

SpecSearch == Init /\ [][NextSearch]_vars

\* Both tools, called in any order and overlap.
NextTools == NextRead \/ NextSearch

SpecTools == Init /\ [][NextTools]_vars

(***************************************************************************)
(* format_documentation_result applied to one (content, start_index,       *)
(* max_length) with start_index >= 0 and max_length > 0, the ranges the    *)
(* Field declarations of read_documentation allow (lines 110-120).         *)
(***************************************************************************)

ApplyWindow ==
    /\ win = None
    /\ \E content \in WindowContents, start_index \in 0..MaxStartIndex,
       max_length \in 1..MaxMaxLength :
        win' = Some([content     |-> content,
                     start_index |-> start_index,
                     max_length  |-> max_length,
                     report      |-> format_documentation_result(
                                         DocUrlA, content, start_index, max_length)])
    /\ UNCHANGED <<pc, args, response, result, steps, search, pager, cls>>

NextWindow == ApplyWindow

SpecWindow == Init /\ [][NextWindow]_vars

(***************************************************************************)
(* A caller that pages through one document: it calls with start_index = 0 *)
(* (the default of line 117) and, while the report carries the truncation  *)
(* note, calls again with the start_index the note names (line 67).  The   *)
(* content and max_length do not change between its calls.  starts and     *)
(* bodies are the start_index of each call and the body it returned.       *)
(***************************************************************************)

\* The default of max_length (line 111).
DefaultMaxLength == 5000

Digits == <<"0", "1", "2", "3", "4", "5", "6", "7", "8", "9">>

\* A content of 12,000 characters, no two neighbours alike.
ExampleContent == [i \in 1..12000 |-> Digits[(i % 10) + 1]]

PagerInputs ==
    (WindowContents \X (1..MaxMaxLength)) \cup {<<ExampleContent, DefaultMaxLength>>}

RECURSIVE Concat(_)
Concat(seqs) == IF seqs = <<>> THEN <<>> ELSE Head(seqs) \o Concat(Tail(seqs))

PagerStart ==
    /\ pager = None
    /\ \E in \in PagerInputs :
           pager' = Some([content    |-> in[1],
                          max_length |-> in[2],
                          next       |-> 0,
                          starts     |-> <<>>,
                          bodies     |-> <<>>,
                          done       |-> FALSE])
    /\ UNCHANGED <<pc, args, response, result, steps, search, win, cls>>

PagerStep ==
    /\ pager # None
    /\ ~pager[1].done
    /\ LET p == pager[1]
           report == format_documentation_result(DocUrlA, p.content, p.next, p.max_length)
       IN  pager' = Some([p EXCEPT
                          !.starts = Append(@, p.next),
                          !.bodies = Append(@, report.body),
                          !.next   = IF report.note # <<>> THEN report.note[1] ELSE @,
                          !.done   = (report.note = <<>>)])
    /\ UNCHANGED <<pc, args, response, result, steps, search, win, cls>>

NextPager == PagerStart \/ PagerStep

\* The caller of the claim calls again whenever a report is truncated, and
\* format_documentation_result always returns.
SpecPager == Init /\ [][NextPager]_vars /\ WF_vars(PagerStep)

(***************************************************************************)
(* Lines 153-162 applied to one payload (response.text, the content-type   *)
(* header) and one (start_index, max_length).                              *)
(***************************************************************************)

ApplyClassify ==
    /\ cls = None
    /\ \E body \in Bodies, content_type \in ContentTypes,
       start_index \in 0..MaxStartIndex, max_length \in 1..MaxMaxLength :
        cls' = Some([body         |-> body,
                     content_type |-> content_type,
                     start_index  |-> start_index,
                     max_length   |-> max_length,
                     is_html      |-> is_html_content(body, content_type),
                     content      |-> ContentOf(body, content_type),
                     report       |-> format_documentation_result(
                                         DocUrlA, ContentOf(body, content_type),
                                         start_index, max_length)])
    /\ UNCHANGED <<pc, args, response, result, steps, search, win, pager>>

NextClassify == ApplyClassify

SpecClassify == Init /\ [][NextClassify]_vars

----------------------------------------------------------------------------
(***************************************************************************)
(* The properties checked, by the number of the claim each states.         *)
(***************************************************************************)

\* The policy as C1 states it: the url matches http(s)://docs.oracle.com/
\* and ends with .htm or .html.
ClaimedUrlOk(url) ==
    /\ \E prefix \in {HttpPrefix, HttpsPrefix} :
           Len(url) >= Len(prefix) /\ \A i \in 1..Len(prefix) : url[i] = prefix[i]
    /\ \E suffix \in {SuffixHtm, SuffixHtml} :
           /\ Len(url) >= Len(suffix)
           /\ \A i \in 1..Len(suffix) : url[Len(url) - Len(suffix) + i] = suffix[i]

\* C1: a call whose url fails the host check or the suffix check returns a
\* string that starts with 'Error:' and issues no HTTP request; a request is
\* issued only by a call whose url passed both checks.
C1_PolicyBeforeFetch ==
    \A c \in Calls : \A a \in Range(args[c]) :
        /\ ~ClaimedUrlOk(a.url) =>
               /\ pc[c] = "returned"
               /\ \E r \in Range(result[c]) : "head" \in DOMAIN r /\ r.head = "Error:"
               /\ "get" \notin Range(steps[c])
               /\ response[c] = None
        /\ "get" \in Range(steps[c]) => ClaimedUrlOk(a.url)

\* One call rejected for its host, another for its suffix.
C1_Witness ==
    \E c, d \in Calls :
        /\ result[c] = Some(ErrorDomain) /\ args[c][1].url = UrlWrongHost
        /\ result[d] = Some(ErrorSuffix) /\ args[d][1].url = UrlWrongSuffix

\* C2: the report carries the truncation note if and only if
\* len(content) > start_index + max_length; when present, the note names
\* exactly start_index + max_length; when absent, no continuation value is
\* emitted.
C2_TruncationNote ==
    \A w \in Range(win) :
        /\ (w.report.note # <<>>) <=> (Len(w.content) > w.start_index + w.max_length)
        /\ w.report.note # <<>> => w.report.note = <<w.start_index + w.max_length>>
        /\ w.report.note = <<>> \/ Len(w.report.note) = 1

\* A truncated report of a window that does not start at 0.
C2_Witness ==
    \E w \in Range(win) : w.report.note # <<>> /\ w.start_index > 0

PagerConsistent(p) ==
    /\ \A k \in 1..Len(p.starts) :
           \* each call starts where the bodies before it end
           /\ p.starts[k] = Len(Concat(SubSeq(p.bodies, 1, k - 1)))
           /\ p.bodies[k] = PySlice(p.content, p.starts[k], p.starts[k] + Len(p.bodies[k]))
    /\ ~p.done => p.next = Len(Concat(p.bodies))
    /\ p.done => Concat(p.bodies) = p.content

\* C3: paging from start_index = 0 with the start_index each truncated
\* report names reaches a report that is not truncated, every call's body
\* begins where the previous body ended, and the bodies concatenated in
\* call order are the whole content.
C3_PagingResumes ==
    /\ [](\A p \in Range(pager) : PagerConsistent(p))
    /\ (pager # None) ~> (pager # None /\ pager[1].done)

\* The scenario of 12,000 characters read 5000 at a time: bodies of 5000,
\* 5000 and 2000 characters, the calls starting at 0, 5000 and 10000.
C3_Witness ==
    \E p \in Range(pager) :
        /\ p.done
        /\ Len(p.content) = 12000
        /\ p.max_length = 5000
        /\ p.starts = <<0, 5000, 10000>>
        /\ [k \in 1..3 |-> Len(p.bodies[k])] = <<5000, 5000, 2000>>

Clamp(x, lo, hi) == Max(lo, Min(x, hi))

\* C4 as stated: the reported range start is start_index clamped to
\* [0, len(content)], the reported range is as long as the body, the body is
\* at most max_length long, and a start_index at or past the end gives an
\* empty body and no truncation note.
C4_ClampedRangeStart ==
    \A w \in Range(win) :
        /\ w.report.showing_from = Clamp(w.start_index, 0, Len(w.content))
        /\ w.report.showing_to - w.report.showing_from = Len(w.report.body)
        /\ Len(w.report.body) <= w.max_length
        /\ w.start_index >= Len(w.content) =>
               w.report.body = <<>> /\ w.report.note = <<>>

\* C4 (amended): the reported range start is start_index as given (the
\* clamped value exactly when start_index <= len(content)), the body is
\* the slice taken at the clamped start, the reported range is as long as
\* the body, the body is at most max_length long, and a start_index at or
\* past the end gives an empty body and no truncation note.
C4_ReportedRange ==
    \A w \in Range(win) :
        /\ w.report.showing_from = w.start_index
        /\ (w.report.showing_from = Clamp(w.start_index, 0, Len(w.content)))
               <=> (w.start_index <= Len(w.content))
        /\ w.report.body =
               PySlice(w.content, Clamp(w.start_index, 0, Len(w.content)),
                       w.start_index + w.max_length)
        /\ w.report.showing_to - w.report.showing_from = Len(w.report.body)
        /\ Len(w.report.body) <= w.max_length
        /\ w.start_index >= Len(w.content) =>
               w.report.body = <<>> /\ w.report.note = <<>>

\* A window asked for past the end of a content that is not empty.
C4_Witness ==
    \E w \in Range(win) : w.start_index > Len(w.content) /\ Len(w.content) > 0

\* C5: on a successful provider call the list returned holds the provider's
\* records in the provider's order, title/url/description taken from
\* title/href/body with '' for a missing field, cut to at most limit
\* entries.
C5_MappedAndLimited ==
    \A s \in Range(search) :
        s.outcome.kind = "response" =>
            /\ s.call.status = "returned"
            /\ Len(s.call.result) <= s.limit
            /\ Len(s.call.result) = Min(Len(s.outcome.records), s.limit)
            /\ \A i \in 1..Len(s.call.result) :
                   LET raw == s.outcome.records[i]
                       out == s.call.result[i]
                   IN  /\ out.title = (IF "title" \in DOMAIN raw THEN raw.title ELSE <<>>)
                       /\ out.url = (IF "href" \in DOMAIN raw THEN raw.href ELSE <<>>)
                       /\ out.description = (IF "body" \in DOMAIN raw THEN raw.body ELSE <<>>)

\* C6: when the provider call raises, search_documentation returns a list
\* of exactly one element whose title and url are empty and whose
\* description contains the error text; it does not return an empty list
\* and does not raise.
C6_SearchFailureAsData ==
    \A s \in Range(search) :
        s.outcome.kind = "raise" =>
            /\ s.call.status = "returned"
            /\ Len(s.call.result) = 1
            /\ s.call.result[1].title = <<>>
            /\ s.call.result[1].url = <<>>
            /\ s.outcome.message \in Range(s.call.result[1].description)

\* A search whose provider raised with a message.
C6_Witness ==
    \E s \in Range(search) : s.outcome.kind = "raise" /\ s.outcome.message # ""

\* C7: every failure of the fetch step (client.get raises, or the status is
\* 400 or more) is returned as a 'Failed to fetch' string that names the url
\* and the message or status code, with no classification, normalization or
\* windowing run, and none leaves the call as an exception.
C7_FetchFailureReturned ==
    \A c \in Calls : \A o \in Range(response[c]) :
        (o.kind = "raise" \/ o.status_code >= 400) =>
            /\ pc[c] = "returned"
            /\ \E r \in Range(result[c]) :
                   /\ "head" \in DOMAIN r /\ r.head = "Failed to fetch "
                   /\ r.url = args[c][1].url
                   /\ IF o.kind = "raise" THEN r.message = o.message
                      ELSE r.status_code = o.status_code
            /\ steps[c] = <<"get">>

\* C8: two calls with the same (url, max_length, start_index) that received
\* the same outcome of their request (the remote content does not change)
\* returned the same string, whatever other calls ran before or between.
C8_CallsIndependent ==
    \A c, d \in Calls :
        (/\ pc[c] = "returned" /\ pc[d] = "returned"
         /\ args[c] = args[d]
         /\ response[c] = response[d])
            => result[c] = result[d]

\* Two calls for the same window of the same page, both given the page.
C8_Witness ==
    \E c, d \in Calls :
        /\ c # d
        /\ pc[c] = "returned" /\ pc[d] = "returned"
        /\ args[c] = args[d]
        /\ response[c] = response[d]
        /\ \E o \in Range(response[c]) : o.kind = "response" /\ o.status_code = 200
        /\ \E r \in Range(result[c]) : "body" \in DOMAIN r /\ r.body # <<>>

LowerOf(ch) ==
    CASE ch = "D" -> "d" [] ch = "O" -> "o" [] ch = "C" -> "c" [] ch = "T" -> "t"
      [] ch = "Y" -> "y" [] ch = "P" -> "p" [] ch = "E" -> "e" [] OTHER -> ch

Lower(s) == [i \in 1..Len(s) |-> LowerOf(s[i])]

DoctypeLower == <<"<", "!", "d", "o", "c", "t", "y", "p", "e">>

\* The classifier's rules as C9 states them, in priority order.
ClaimedHtml(body, content_type) ==
    \/ Contains(content_type, TextHtml)
    \/ StartsWith(Lower(Strip(body)), DoctypeLower)
    \/ Contains(PySlice(body, 0, SniffWindow), HtmlTag)

\* C9: the classifier answers HTML if the declared content-type contains
\* 'text/html'; otherwise HTML if the trimmed body begins with the
\* document-type declaration compared case-insensitively, or '<html' occurs
\* in the first 1000 characters; otherwise PLAIN, and then the raw body is
\* what is windowed.
C9_ClassifierRules ==
    \A c \in Range(cls) :
        /\ c.is_html <=> ClaimedHtml(c.body, c.content_type)
        /\ ~c.is_html =>
               /\ c.content = c.body
               /\ c.report = format_documentation_result(
                                 DocUrlA, c.body, c.start_index, c.max_length)

Count(x, seq) == Cardinality({i \in 1..Len(seq) : seq[i] = x})

\* C10: no call retries: a read_documentation call issues at most one HTTP
\* GET and a search_documentation call at most one provider query, and the
\* step that meets a failed fetch or a failed search is the one that returns
\* the error result, with no further attempt.
C10_NoRetry ==
    [][/\ \A c \in Calls :
              /\ Count("get", steps'[c]) <= 1
              /\ (/\ pc[c] = "awaiting"
                  /\ response'[c] # None
                  /\ (response'[c][1].kind = "raise" \/ response'[c][1].status_code >= 400))
                     => /\ pc'[c] = "returned"
                        /\ \E r \in Range(result'[c]) :
                               "head" \in DOMAIN r /\ r.head = "Failed to fetch "
                        /\ steps'[c] = steps[c]
       /\ \A s \in Range(search') :
              /\ s.call.sent.queries <= 1
              /\ s.outcome.kind = "raise" =>
                     /\ s.call.status = "returned"
                     /\ Len(s.call.result) = 1
                     /\ s.call.result[1].description =
                            <<"Error searching OCI docs: ", s.outcome.message>>]_vars

=============================================================================
